---- MODULE Spec2Model ----
(***************************************************************************)
(* Model of the DART bulk downloader (src/app.py): the pure helpers        *)
(* (sanitize_filename, is_zip, search_companies), the directory fetcher,   *)
(* the paginated filing lister, the per-filing downloader and the          *)
(* Streamlit session (search button, selectbox, download button).          *)
(*                                                                         *)
(* Python strings are sequences of one-character strings, byte buffers     *)
(* are sequences of integers, an optional value is a sequence of length    *)
(* at most one (None == <<>>, Some(x) == <<x>>).                            *)
(***************************************************************************)
EXTENDS Integers, Sequences, FiniteSets, TLC

VARIABLES
    st_cache,            \* st.cache_data of fetch_corp_master: api key -> optional directory
    corp_master_cache,   \* st.session_state["corp_master_cache"]
    search_options,      \* st.session_state["search_options"] (<<>> when absent)
    company_selectbox,   \* st.session_state["company_selectbox"], the widget's value
    selected_company,    \* st.session_state["selected_company"]
    run,                 \* what the current/last script run was and what it showed
    results,             \* the artifacts the last download run published (optional)
    pc,                  \* position of the running script: idle, listing, downloading
    upstream,            \* what list.json answers, page by page, for the run's company/year
    page_no,             \* fetch_list: page_no
    out,                 \* fetch_list: out
    fetched,             \* the page numbers fetch_list has requested, in order
    items,               \* run_download: items
    i,                   \* run_download: loop counter of enumerate(items, start=1)
    summary,             \* run_download: summary
    bundle,              \* run_download: members written to the bundle archive
    doc_gets,            \* the outcome of each document GET of the run, in order
    before,              \* the session state the current/last script run started from
    last_ok,             \* the directory the last returning fetch_corp_master call gave
    call                 \* a call of a pure helper: its arguments and its result

vars == << st_cache, corp_master_cache, search_options, company_selectbox,
           selected_company, run, results, pc, upstream, page_no, out, fetched,
           items, i, summary, bundle, doc_gets, before, last_ok, call >>

----------------------------------------------------------------------------
(* Optional values and small sequence helpers *)

None == << >>

Some(x) == << x >>

IsSome(o) == Len(o) = 1

Get(o) == o[1]

Min(a, b) == IF a <= b THEN a ELSE b

\* s[:n]
Take(s, n) == SubSeq(s, 1, Min(n, Len(s)))

\* s[n:] for n >= 0
Drop(s, n) == SubSeq(s, Min(n, Len(s)) + 1, Len(s))

RECURSIVE Concat(_)
Concat(ss) == IF ss = << >> THEN << >> ELSE Head(ss) \o Concat(Tail(ss))

Repeat(c, n) == [k \in 1..n |-> c]

----------------------------------------------------------------------------
(* Characters.  CodePoint orders strings as Python compares str values. *)

CodePoint(c) ==
    CASE c = "\t" -> 9
      [] c = " "  -> 32
      [] c = "\"" -> 34
      [] c = "("  -> 40
      [] c = ")"  -> 41
      [] c = "*"  -> 42
      [] c = "."  -> 46
      [] c = "/"  -> 47
      [] c = "0"  -> 48
      [] c = "1"  -> 49
      [] c = "2"  -> 50
      [] c = "3"  -> 51
      [] c = "4"  -> 52
      [] c = "5"  -> 53
      [] c = "6"  -> 54
      [] c = "7"  -> 55
      [] c = "8"  -> 56
      [] c = "9"  -> 57
      [] c = ":"  -> 58
      [] c = "<"  -> 60
      [] c = ">"  -> 62
      [] c = "?"  -> 63
      [] c = "A"  -> 65
      [] c = "B"  -> 66
      [] c = "C"  -> 67
      [] c = "Q"  -> 81
      [] c = "R"  -> 82
      [] c = "S"  -> 83
      [] c = "\\" -> 92
      [] c = "_"  -> 95
      [] c = "a"  -> 97
      [] c = "b"  -> 98
      [] c = "c"  -> 99
      [] c = "d"  -> 100
      [] c = "e"  -> 101
      [] c = "i"  -> 105
      [] c = "k"  -> 107
      [] c = "n"  -> 110
      [] c = "o"  -> 111
      [] c = "p"  -> 112
      [] c = "r"  -> 114
      [] c = "s"  -> 115
      [] c = "t"  -> 116
      [] c = "u"  -> 117
      [] c = "w"  -> 119
      [] c = "x"  -> 120
      [] c = "z"  -> 122
      [] c = "|"  -> 124
      [] c = "sup2" -> 178    \* SUPERSCRIPT TWO, U+00B2
      [] c = "sz" -> 223      \* LATIN SMALL LETTER SHARP S, U+00DF
      [] c = "idotless" -> 305 \* LATIN SMALL LETTER DOTLESS I, U+0131
      [] c = "FAILED" -> 45796 \* the Korean text of the failure marker, as one token

\* str.isspace of one character (what str.split() and the regex \s match)
IsSpace(c) == c \in {" ", "\t"}

\* str.isdigit of one character: decimal digits and other digit characters
\* such as superscripts
IsDigitChar(c) == c \in {"0", "1", "2", "3", "4", "5", "6", "7", "8", "9", "sup2"}

\* str.casefold of one character (full case folding: one character may give two)
CaseFoldChar(c) ==
    CASE c = "A" -> << "a" >>
      [] c = "B" -> << "b" >>
      [] c = "C" -> << "c" >>
      [] c = "Q" -> << "q" >>
      [] c = "R" -> << "r" >>
      [] c = "S" -> << "s" >>
      [] c = "sz" -> << "s", "s" >>
      [] OTHER   -> << c >>

casefold(s) == Concat([k \in 1..Len(s) |-> CaseFoldChar(s[k])])

\* the lower-case form the regex engine compares under re.IGNORECASE
\* (simple, one-to-one case mapping); the engine also takes i and dotless i
\* for the same letter, both being lower-case forms of I
SreLower(c) ==
    CASE c = "A" -> "a"
      [] c = "idotless" -> "i"
      [] c = "B" -> "b"
      [] c = "C" -> "c"
      [] c = "Q" -> "q"
      [] c = "R" -> "r"
      [] c = "S" -> "s"
      [] OTHER   -> c

\* a < b for two str values
StrLess(a, b) ==
    LET differ == { k \in 1..Min(Len(a), Len(b)) : a[k] # b[k] }
    IN  IF differ = { } THEN Len(a) < Len(b)
        ELSE LET first == CHOOSE k \in differ : \A j \in differ : k <= j
             IN  CodePoint(a[first]) < CodePoint(b[first])

\* s.strip()
RECURSIVE LStrip(_)
LStrip(s) == IF s # << >> /\ IsSpace(Head(s)) THEN LStrip(Tail(s)) ELSE s

RECURSIVE RStrip(_)
RStrip(s) ==
    IF s # << >> /\ IsSpace(s[Len(s)]) THEN RStrip(SubSeq(s, 1, Len(s) - 1)) ELSE s

strip(s) == RStrip(LStrip(s))

\* re.sub(r"\s+", "", s)
NotSpace(c) == ~IsSpace(c)

remove_whitespace(s) == SelectSeq(s, NotSpace)

\* s.split(): the maximal runs of non-whitespace characters, in order
split(s) ==
    LET starts == { k \in 1..Len(s) :
                      ~IsSpace(s[k]) /\ (k = 1 \/ IsSpace(s[k - 1])) }
        start(j) == CHOOSE k \in starts : Cardinality({ m \in starts : m < k }) = j - 1
        stop(k)  == CHOOSE e \in k..Len(s) :
                      /\ \A m \in k..e : ~IsSpace(s[m])
                      /\ (e = Len(s) \/ IsSpace(s[e + 1]))
    IN  [j \in 1..Cardinality(starts) |-> SubSeq(s, start(j), stop(start(j)))]

\* sep.join(words)
RECURSIVE join(_, _)
join(sep, words) ==
    IF words = << >> THEN << >>
    ELSE IF Len(words) = 1 THEN Head(words)
    ELSE Head(words) \o sep \o join(sep, Tail(words))

----------------------------------------------------------------------------
(* sanitize_filename, src/app.py:51-59 *)

\* Python's None passed where a str is expected: a value that is no string
PyNone == << "<None>" >>

\* the ten characters of the raw literal r'\\/:*?"<>|' (the backslash twice)
bad == << "\\", "\\", "/", ":", "*", "?", "\"", "<", ">", "|" >>

unknown_report ==
    << "u", "n", "k", "n", "o", "w", "n", "_", "r", "e", "p", "o", "r", "t" >>

NameLimit == 120

\* name.replace(ch, "_")
replace(name, ch, by) == [k \in 1..Len(name) |-> IF name[k] = ch THEN by ELSE name[k]]

RECURSIVE ReplaceAll(_, _)
ReplaceAll(name, chs) ==
    IF chs = << >> THEN name
    ELSE ReplaceAll(replace(name, Head(chs), "_"), Tail(chs))

sanitize_filename(name) ==
    LET n0 == IF name = PyNone \/ name = << >> THEN unknown_report ELSE name
        n1 == ReplaceAll(n0, bad)
        n2 == join(<< "_" >>, split(n1))
    IN  Take(n2, NameLimit)

----------------------------------------------------------------------------
(* is_zip, src/app.py:61-62 *)

ZipMagic == << 80, 75, 3, 4 >>

\* the sniff that takes the bare four-byte signature for an archive
is_zip_signature_only(content) == Len(content) >= 4 /\ Take(content, 4) = ZipMagic

is_zip(content) == Len(content) > 4 /\ Take(content, 4) = ZipMagic

----------------------------------------------------------------------------
(* DataFrame helpers *)

\* df.sort_values(by=[...]): a stable sort (pandas sorts several keys with a
\* stable lexsort); less[j, k] says that row j is before row k by the keys
StableSort(s, less) ==
    LET n == Len(s)
        \* << p, k >>: row k of s goes to position p
        placed == { << 1 + Cardinality({ j \in 1..n :
                                           \/ less[j, k]
                                           \/ (~less[k, j] /\ j < k) }), k >> :
                    k \in 1..n }
    IN  [p \in 1..n |-> s[(CHOOSE pk \in placed : pk[1] = p)[2]]]

----------------------------------------------------------------------------
(* search_companies, src/app.py:133-157 *)

HeadCap == 200

\* Series.str.contains(re.escape(qn), case=False, regex=True): qn occurs in
\* hay, characters compared as the regex engine does under IGNORECASE
IContains(hay, qn) ==
    \E off \in 0..(Len(hay) - Len(qn)) :
        \A j \in 1..Len(qn) : SreLower(hay[off + j]) = SreLower(qn[j])

\* m["__norm"]
norm(r) == remove_whitespace(r.corp_name)

mask_exact(r, qn) == casefold(norm(r)) = casefold(qn)

mask_part(r, qn) == IContains(norm(r), qn)

Ranked(r, rank) ==
    [corp_code |-> r.corp_code, corp_name |-> r.corp_name,
     stock_code |-> r.stock_code, rank |-> rank, listed |-> r.stock_code # << >>]

Unranked(r) ==
    [corp_code |-> r.corp_code, corp_name |-> r.corp_name, stock_code |-> r.stock_code]

\* the sort with the listed key ascending
SearchLess_unlisted_first(a, b) ==
    \/ a.rank < b.rank
    \/ /\ a.rank = b.rank
       /\ \/ ~a.listed /\ b.listed
          \/ a.listed = b.listed /\ StrLess(a.corp_name, b.corp_name)

\* by=["__rank", "__listed", "corp_name"], ascending=[True, False, True]
SearchLess(a, b) ==
    \/ a.rank < b.rank
    \/ /\ a.rank = b.rank
       /\ \/ a.listed /\ ~b.listed
          \/ a.listed = b.listed /\ StrLess(a.corp_name, b.corp_name)

search_companies(master, query) ==
    LET q  == strip(query)
        qn == remove_whitespace(q)
        IsExact(r) == mask_exact(r, qn)
        IsPart(r)  == mask_part(r, qn) /\ ~mask_exact(r, qn)
        exact == SelectSeq(master, IsExact)
        part  == SelectSeq(master, IsPart)
        res   == [k \in 1..Len(exact) |-> Ranked(exact[k], 0)]
                 \o [k \in 1..Len(part) |-> Ranked(part[k], 1)]
        sorted == StableSort(res, [j, k \in 1..Len(res) |-> SearchLess(res[j], res[k])])
        top    == Take(sorted, HeadCap)
    IN  IF q = << >> THEN << >>
        ELSE [k \in 1..Len(top) |-> Unranked(top[k])]

\* the exact_only filter of the search handler, src/app.py:248-253
exact_only_filter(cand, query, exact_only) ==
    LET qn == remove_whitespace(query)
        Keep(r) == casefold(remove_whitespace(r.corp_name)) = casefold(qn)
    IN  IF exact_only /\ strip(query) # << >> THEN SelectSeq(cand, Keep) ELSE cand

----------------------------------------------------------------------------
(* fetch_corp_master, src/app.py:64-131 *)

\* A raised exception or a returned value
Raised(e) == [raised |-> TRUE, error |-> e, value |-> << >>]

Returned(v) == [raised |-> FALSE, error |-> [kind |-> "", status |-> "", message |-> ""],
                value |-> v]

RuntimeError(kind, status, message) ==
    [kind |-> kind, status |-> status, message |-> message]

\* "zip" in content_type.lower()
CtHasZip(ct) == ct \in {"application/zip", "application/x-zip-compressed"}

\* "html" in content_type.lower()
CtHasHtml(ct) == ct \in {"text/html", "text/html; charset=UTF-8"}

\* lines 90-94: json.loads(txt), then raise when the envelope has a status or
\* a message; a body that is no JSON object raises too
TryJson(content) ==
    IF ~IsSome(content.json) THEN Raised(RuntimeError("JSONDecodeError", "", ""))
    ELSE LET j == Get(content.json)
         IN  IF j.status # "" \/ j.message # ""
             THEN Raised(RuntimeError("upstream_json", j.status, j.message))
             ELSE Returned(<< >>)

\* lines 100-104: ET.fromstring(txt), then raise when <message> or <msg> is non-blank
TryXml(content) ==
    IF ~IsSome(content.xml) THEN Raised(RuntimeError("ParseError", "", ""))
    ELSE LET x   == Get(content.xml)
             msg == IF x.message # << >> THEN x.message ELSE x.msg
         IN  IF strip(msg) # << >>
             THEN Raised(RuntimeError("upstream_xml", "", strip(msg)))
             ELSE Returned(<< >>)

\* "except Exception: pass" (lines 95-96 and 105-106): whatever the try block
\* raised, the RuntimeError of the block itself included, is swallowed
ExceptPass(outcome) == Returned(<< >>)

\* lines 114-122: open the archive and parse its first member
OpenZip(content) ==
    IF content.zip = "ok" THEN Returned(content.dir)
    ELSE IF content.zip = "bad" THEN Raised(RuntimeError("bad_zip", "", ""))
    ELSE Raised(RuntimeError("zip_processing", "", ""))

fetch_corp_master(api_key, resp) ==
    IF strip(api_key) = << >> THEN Raised(RuntimeError("empty_key", "", ""))
    ELSE IF resp.raised THEN Raised(RuntimeError("network", "", ""))
    ELSE IF ~(is_zip(resp.content.bytes) \/ CtHasZip(resp.content_type))
    THEN LET j == ExceptPass(TryJson(resp.content))
             x == ExceptPass(TryXml(resp.content))
             hint == IF resp.status_code # 200 THEN "HTTP" ELSE ""
         IN  IF j.raised THEN j
             ELSE IF x.raised THEN x
             ELSE IF CtHasHtml(resp.content_type)
                  THEN Raised(RuntimeError("non_zip_html", hint, ""))
                  ELSE Raised(RuntimeError("non_zip", "", ""))
    ELSE OpenZip(resp.content)

----------------------------------------------------------------------------
(* The inputs of the session: what the user types and what corpCode.xml answers *)

ApiKeys == { << >>, << "k" >> }

Queries == { << >>, << " " >>, << "a", "b" >>, << "b" >>, << "x" >> }

Years == { << "2", "0", "2", "4" >>, << "2", "4" >>, << "2", "0", "x", "4" >>,
           << "2", "0", "2", "sup2" >> }

CompanyAB  == [corp_code |-> << "1" >>, corp_name |-> << "A", "B" >>,
               stock_code |-> << "3" >>]

CompanyABc == [corp_code |-> << "2" >>, corp_name |-> << "A", " ", "B", "c" >>,
               stock_code |-> << >>]

CompanyB   == [corp_code |-> << "4" >>, corp_name |-> << "b" >>, stock_code |-> << >>]

DirectoryOld == << CompanyABc, CompanyAB >>

DirectoryNew == << CompanyAB, CompanyB >>

NoBody == [bytes |-> << >>, json |-> None, xml |-> None, zip |-> "bad", dir |-> << >>]

ZipBody(d) == [NoBody EXCEPT !.bytes = ZipMagic \o << 20 >>, !.zip = "ok", !.dir = d]

BrokenZipBody == [NoBody EXCEPT !.bytes = ZipMagic \o << 0 >>, !.zip = "bad"]

JsonBody(status, message) ==
    [NoBody EXCEPT !.bytes = << 123, 34, 115, 116, 97 >>,
                   !.json = Some([status |-> status, message |-> message])]

XmlBody(message, msg) ==
    [NoBody EXCEPT !.bytes = << 60, 63, 120, 109, 108 >>,
                   !.xml = Some([message |-> message, msg |-> msg])]

HtmlBody == [NoBody EXCEPT !.bytes = << 60, 104, 116, 109, 108 >>]

HttpResponse(status_code, content_type, content) ==
    [raised |-> FALSE, status_code |-> status_code, content_type |-> content_type,
     content |-> content]

\* requests.RequestException: timeout, connection failure
RequestException ==
    [raised |-> TRUE, status_code |-> 0, content_type |-> "", content |-> NoBody]

DirResponses ==
    { RequestException,
      HttpResponse(200, "application/x-msdownload", ZipBody(DirectoryOld)),
      HttpResponse(200, "application/x-msdownload", ZipBody(DirectoryNew)),
      HttpResponse(200, "application/x-msdownload", BrokenZipBody),
      HttpResponse(200, "application/zip", JsonBody("020", "limit")),
      HttpResponse(200, "application/json", JsonBody("020", "limit")),
      HttpResponse(200, "application/json", JsonBody("", "")),
      HttpResponse(200, "application/xml", XmlBody(<< "k", "e", "d" >>, << >>)),
      HttpResponse(200, "application/xml", XmlBody(<< >>, << " " >>)),
      HttpResponse(503, "text/html", HtmlBody),
      HttpResponse(200, "text/plain", NoBody) }

----------------------------------------------------------------------------
(* The search button handler, src/app.py:228-266, and the selectbox, 276-298 *)

NoError == [kind |-> "", status |-> "", message |-> ""]

NoRun == [action |-> "none", api_key |-> << >>, query |-> << >>, exact_only |-> FALSE,
          year |-> << >>, fetch |-> "none", error |-> NoError, messages |-> { }]

\* @st.cache_data (line 64): a key whose fetch already returned is answered
\* from the cache, without a request; a raised call is not cached
CachedFetch(entry, api_key, resp) ==
    IF IsSome(entry) THEN Returned(Get(entry)) ELSE fetch_corp_master(api_key, resp)

\* the retained directory dropped when the fetch raises
RetainAfterFetch_or_drop(retained, r) == IF r.raised THEN None ELSE Some(r.value)

\* line 237: st.session_state["corp_master_cache"] = master, reached only when
\* fetch_corp_master returned
RetainAfterFetch(retained, r) == IF r.raised THEN retained ELSE Some(r.value)

\* the except branch without the fallback to the retained directory
OnFetchFailure_no_fallback(retained) ==
    [stop |-> TRUE, master |-> << >>, message |-> "search_error"]

\* lines 238-244: the except branch of the search handler
OnFetchFailure(retained) ==
    IF retained = None
    THEN [stop |-> TRUE, master |-> << >>, message |-> "search_error"]
    ELSE [stop |-> FALSE, master |-> Get(retained), message |-> "stale_warning"]

\* the keys left in the session state
pop_nothing(value) == value

\* lines 230-232: st.session_state.pop(key, None)
pop(value) == None

\* lines 289-293: the projection of the picked row
Project(row) == [corp_code |-> row.corp_code, corp_name |-> row.corp_name]

\* lines 279-293: the selectbox returns its value, and a picked row is saved
Render(selectbox, selected) ==
    IF IsSome(selectbox) THEN Some(Project(Get(selectbox))) ELSE selected

\* every script run starts from fresh locals and empty placeholders
FreshRun ==
    /\ before' = [selected |-> selected_company, cache |-> corp_master_cache,
                  options |-> search_options]
    /\ results' = None
    /\ page_no' = 1
    /\ out' = << >>
    /\ fetched' = << >>
    /\ items' = << >>
    /\ i' = 0
    /\ summary' = << >>
    /\ bundle' = << >>
    /\ doc_gets' = << >>

\* the search button pressed without an API key: line 228 skips the handler
SearchIgnored(query, exact_only) ==
    /\ pc = "idle"
    /\ selected_company' = Render(company_selectbox, selected_company)
    /\ run' = [NoRun EXCEPT !.action = "search", !.query = query,
                            !.exact_only = exact_only, !.fetch = "skipped"]
    /\ FreshRun
    /\ UNCHANGED << st_cache, corp_master_cache, search_options, company_selectbox,
                    pc, upstream, last_ok, call >>

\* the search button pressed with an API key
Search(api_key, query, exact_only, resp) ==
    /\ pc = "idle"
    /\ api_key # << >>
    /\ LET r        == CachedFetch(st_cache[api_key], api_key, resp)
           fail     == OnFetchFailure(corp_master_cache)
           stop     == r.raised /\ fail.stop
           master   == IF r.raised THEN fail.master ELSE r.value
           cand     == exact_only_filter(search_companies(master, query),
                                         query, exact_only)
           fetch    == IF IsSome(st_cache[api_key]) THEN "cached"
                       ELSE IF r.raised THEN "failed" ELSE "ok"
           shown    == (IF r.raised THEN { fail.message } ELSE { })
                       \cup (IF stop THEN { }
                             ELSE IF cand = << >> THEN { "no_results" }
                             ELSE { "search_success" })
       IN  /\ st_cache' = IF r.raised THEN st_cache
                          ELSE [st_cache EXCEPT ![api_key] = Some(r.value)]
           /\ corp_master_cache' = RetainAfterFetch(corp_master_cache, r)
           /\ search_options' = IF stop THEN pop(search_options) ELSE cand
           /\ company_selectbox' = pop(company_selectbox)
           /\ selected_company' = Render(company_selectbox', pop(selected_company))
           /\ run' = [NoRun EXCEPT !.action = "search", !.api_key = api_key,
                                   !.query = query, !.exact_only = exact_only,
                                   !.fetch = fetch,
                                   !.error = IF r.raised THEN r.error ELSE NoError,
                                   !.messages = shown]
           /\ last_ok' = IF r.raised THEN last_ok ELSE Some(r.value)
    /\ FreshRun
    /\ UNCHANGED << pc, upstream, call >>

\* the "clear cache" button, lines 221-223: st.cache_data.clear()
ClearCache ==
    /\ pc = "idle"
    /\ st_cache' = [k \in ApiKeys |-> None]
    /\ selected_company' = Render(company_selectbox, selected_company)
    /\ run' = [NoRun EXCEPT !.action = "clear_cache", !.messages = { "cache_cleared" }]
    /\ FreshRun
    /\ UNCHANGED << corp_master_cache, search_options, company_selectbox,
                    pc, upstream, last_ok, call >>

\* the user picks the n-th option of the selectbox
Pick(n) ==
    /\ pc = "idle"
    /\ n \in 1..Len(search_options)
    /\ company_selectbox' = Some(search_options[n])
    /\ selected_company' = Render(company_selectbox', selected_company)
    /\ run' = [NoRun EXCEPT !.action = "pick"]
    /\ FreshRun
    /\ UNCHANGED << st_cache, corp_master_cache, search_options, pc, upstream, last_ok, call >>

\* the user clears the selectbox (index=None makes it clearable)
Unpick ==
    /\ pc = "idle"
    /\ IsSome(company_selectbox)
    /\ company_selectbox' = None
    /\ selected_company' = Render(company_selectbox', selected_company)
    /\ run' = [NoRun EXCEPT !.action = "unpick"]
    /\ FreshRun
    /\ UNCHANGED << st_cache, corp_master_cache, search_options, pc, upstream, last_ok, call >>

----------------------------------------------------------------------------
(* What list.json and document.xml answer *)

Date0101 == << "2", "0", "2", "4", "0", "1", "0", "1" >>

Date0102 == << "2", "0", "2", "4", "0", "1", "0", "2" >>

FilingQ1 == [rcept_no |-> << "1" >>, rcept_dt |-> Date0102,
             report_nm |-> << "Q", "1" >>, rpt_nm |-> << >>]

FilingAR == [rcept_no |-> << "2" >>, rcept_dt |-> Date0101,
             report_nm |-> << "A", " ", "/", "R" >>, rpt_nm |-> << >>]

FilingNoName == [rcept_no |-> << "3" >>, rcept_dt |-> Date0102,
                 report_nm |-> << >>, rpt_nm |-> << >>]

Filings == { FilingQ1, FilingAR, FilingNoName }

\* bounds of the listings of the download specification
MaxFilings == 3

MaxPageLen == 2

RECURSIVE SeqsUpTo(_, _)
SeqsUpTo(S, n) ==
    IF n = 0 THEN { << >> }
    ELSE LET shorter == SeqsUpTo(S, n - 1)
         IN  shorter \cup { Append(s, x) : s \in { t \in shorter : Len(t) = n - 1 }, x \in S }

ListPage(status, total_count, list) ==
    [http_error |-> FALSE, status |-> status, total_count |-> total_count, list |-> list]

\* the request raised (RequestException, raise_for_status, a body that is no JSON)
ListHttpError == [http_error |-> TRUE, status |-> "", total_count |-> 0, list |-> << >>]

\* status "013": no data
ListNoData == ListPage("013", 0, << >>)

NoFault == [page |-> 0, kind |-> "none"]

\* the pages a server holding catalog serves with pages of sz filings, each
\* page reporting total_count = total; a page past the catalog is empty;
\* fault puts an application error or a transport error at one page
Paginate(catalog, sz, total, fault) ==
    LET n     == Len(catalog)
        full  == (n + sz - 1) \div sz
        pages == [k \in 1..full |->
                    ListPage("000", total,
                             SubSeq(catalog, (k - 1) * sz + 1, Min(k * sz, n)))]
        all   == IF total > n \/ n = 0
                 THEN Append(pages, ListPage("000", total, << >>)) ELSE pages
    IN  [k \in 1..Len(all) |->
            IF k # fault.page THEN all[k]
            ELSE IF fault.kind = "status" THEN ListNoData ELSE ListHttpError]

ListFaults == { NoFault, [page |-> 1, kind |-> "http"], [page |-> 1, kind |-> "status"],
                [page |-> 2, kind |-> "status"] }

\* the total_count the server may report for a catalog: exact, or off by one
TotalsNear(c) == { Len(c) - 1, Len(c), Len(c) + 1 } \cap Nat

RunListings ==
    UNION { { Paginate(c, sz, t, f) :
                sz \in 1..MaxPageLen, t \in TotalsNear(c), f \in ListFaults } :
            c \in SeqsUpTo(Filings, MaxFilings) }

SessionListings ==
    { Paginate(<< FilingAR, FilingQ1 >>, 1, 2, NoFault),
      Paginate(<< FilingQ1 >>, 1, 1, [page |-> 1, kind |-> "status"]),
      Paginate(<< >>, 1, 0, NoFault) }

\* the page the server answers for page_no
PageAt(pages, n) == IF n \in 1..Len(pages) THEN pages[n] ELSE ListNoData

HtmlBytes == << 60, 104, 116, 109, 108 >>

DocResponses ==
    { [raised |-> TRUE, status_code |-> 0, content |-> << >>],
      [raised |-> FALSE, status_code |-> 200, content |-> ZipMagic \o << 20 >>],
      [raised |-> FALSE, status_code |-> 200, content |-> HtmlBytes],
      [raised |-> FALSE, status_code |-> 404, content |-> ZipMagic \o << 20 >>] }

----------------------------------------------------------------------------
(* download_zip_bytes, src/app.py:187-194 *)

download_zip_bytes(resp) ==
    IF resp.raised THEN Raised(RuntimeError("network", "", ""))
    ELSE IF resp.status_code = 200 /\ is_zip(resp.content)
         THEN Returned(Some(resp.content))
         ELSE Returned(None)

----------------------------------------------------------------------------
(* The download action, src/app.py:310-398 *)

\* len(year) == 4 and year.isdigit()
ValidYear(year) == Len(year) = 4 /\ \A k \in 1..Len(year) : IsDigitChar(year[k])

\* "if content:" for an Optional[bytes]
Truthy(content) == IsSome(content) /\ Get(content) # << >>

\* line 337
report_name(it) ==
    IF it.report_nm # << >> THEN it.report_nm
    ELSE IF it.rpt_nm # << >> THEN it.rpt_nm
    ELSE unknown_report

DotZip == << ".", "z", "i", "p" >>

\* line 339
safe_zip_name(it) ==
    sanitize_filename(it.rcept_dt \o << "_" >> \o report_name(it) \o << "_" >>
                      \o it.rcept_no) \o DotZip

\* line 345
failure_marker(rcept_no) == rcept_no \o DotZip \o << " ", "(", "FAILED", ")" >>

\* lines 341-345
zip_saved(it, content) ==
    IF Truthy(content) THEN safe_zip_name(it) ELSE failure_marker(it.rcept_no)

\* writestr outside the "if content" branch
writestr_always(members, it, content) ==
    Append(members, [name |-> safe_zip_name(it),
                     data |-> IF IsSome(content) THEN Get(content) ELSE << >>])

\* lines 341-342: bundle.writestr(safe_zip_name, content)
writestr(members, it, content) ==
    IF Truthy(content)
    THEN Append(members, [name |-> safe_zip_name(it), data |-> Get(content)])
    ELSE members

\* summary_append with a row only for a downloaded filing
summary_append_only_saved(rows, it, sc, content) ==
    IF Truthy(content)
    THEN Append(rows, [index |-> Len(rows), corp_name |-> sc.corp_name,
                       corp_code |-> sc.corp_code, report_nm |-> report_name(it),
                       rcept_no |-> it.rcept_no, rcept_dt |-> it.rcept_dt,
                       zip_saved |-> safe_zip_name(it), rcpNo |-> it.rcept_no])
    ELSE rows

\* lines 347-355; index is the row label the DataFrame gives the row
summary_append(rows, it, sc, content) ==
    Append(rows, [index |-> Len(rows), corp_name |-> sc.corp_name,
                  corp_code |-> sc.corp_code, report_nm |-> report_name(it),
                  rcept_no |-> it.rcept_no, rcept_dt |-> it.rcept_dt,
                  zip_saved |-> zip_saved(it, content), rcpNo |-> it.rcept_no])

\* the sort with the date key ascending
SummaryLess_date_ascending(a, b) ==
    \/ StrLess(a.rcept_dt, b.rcept_dt)
    \/ a.rcept_dt = b.rcept_dt /\ StrLess(a.report_nm, b.report_nm)

\* by=[rcept_dt, report_nm], ascending=[False, True]
SummaryLess(a, b) ==
    \/ StrLess(b.rcept_dt, a.rcept_dt)
    \/ a.rcept_dt = b.rcept_dt /\ StrLess(a.report_nm, b.report_nm)

\* line 360
sort_summary(rows) ==
    StableSort(rows, [j, k \in 1..Len(rows) |-> SummaryLess(rows[j], rows[k])])

\* the loop test without the empty-page exit
last_page_by_count(count, total, list) == count >= total

\* lines 181-182: fetch_list leaves its loop
last_page(count, total, list) == count >= total \/ list = << >>

\* a lister that takes every envelope for a success
list_error_never(data) == FALSE

\* line 176: the envelope of the page is not the success sentinel
list_error(data) == data.status # "000"

\* lines 397-398: the exception handler of the action
Failed(error) ==
    /\ pc' = "idle"
    /\ run' = [run EXCEPT !.error = error, !.messages = { "error" }]

\* the download button: lines 310-323 up to the first list request
RunDownload(api_key, year) ==
    /\ pc = "idle"
    /\ selected_company' = Render(company_selectbox, selected_company)
    /\ LET problem == IF api_key = << >> THEN { "err_api_key" }
                      ELSE IF selected_company' = None THEN { "err_no_company" }
                      ELSE IF ~ValidYear(year) THEN { "err_year" }
                      ELSE { }
       IN  /\ run' = [NoRun EXCEPT !.action = "download", !.api_key = api_key,
                                   !.year = year, !.messages = problem]
           /\ pc' = IF problem = { } THEN "listing" ELSE "idle"
    /\ FreshRun
    /\ UNCHANGED << st_cache, corp_master_cache, search_options, company_selectbox,
                    upstream, last_ok, call >>

\* one iteration of the loop of fetch_list, lines 164-185, and, when the
\* loop ends, lines 325-331 of the action
FetchPage ==
    /\ pc = "listing"
    /\ LET data == PageAt(upstream, page_no)
           acc  == out \o data.list
       IN  /\ fetched' = Append(fetched, page_no)
           /\ IF data.http_error
              THEN /\ Failed(RuntimeError("http", "", ""))
                   /\ UNCHANGED << page_no, out, items >>
              ELSE IF list_error(data)
              THEN /\ Failed(RuntimeError("list_json", data.status, ""))
                   /\ UNCHANGED << page_no, out, items >>
              ELSE IF last_page(Len(acc), data.total_count, data.list)
              THEN /\ out' = acc
                   /\ items' = acc
                   /\ pc' = IF acc = << >> THEN "idle" ELSE "downloading"
                   /\ run' = IF acc = << >>
                             THEN [run EXCEPT !.messages = { "info_no_filings" }]
                             ELSE run
                   /\ UNCHANGED page_no
              ELSE /\ out' = acc
                   /\ page_no' = page_no + 1
                   /\ UNCHANGED << pc, run, items >>
    /\ UNCHANGED << st_cache, corp_master_cache, search_options, company_selectbox,
                    selected_company, results, upstream, i, summary, bundle,
                    doc_gets, before, last_ok, call >>

\* one iteration of the batch loop, lines 334-358, and, after the last one,
\* the sort and the publication of the artifacts, lines 360-396
DownloadOne(resp) ==
    /\ pc = "downloading"
    /\ i < Len(items)
    /\ LET it == items[i + 1]
           d  == download_zip_bytes(resp)
           sc == Get(selected_company)
       IN  /\ i' = i + 1
           /\ doc_gets' = Append(doc_gets, resp)
           /\ IF d.raised
              THEN /\ Failed(d.error)
                   /\ UNCHANGED << summary, bundle, results >>
              ELSE /\ bundle' = writestr(bundle, it, d.value)
                   /\ summary' = summary_append(summary, it, sc, d.value)
                   /\ IF i' = Len(items)
                      THEN /\ results' = Some([df |-> sort_summary(summary'),
                                               bundle |-> bundle'])
                           /\ pc' = "idle"
                           /\ run' = [run EXCEPT !.messages = { "success" }]
                      ELSE UNCHANGED << results, pc, run >>
    /\ UNCHANGED << st_cache, corp_master_cache, search_options, company_selectbox,
                    selected_company, upstream, page_no, out, fetched, items,
                    before, last_ok, call >>

----------------------------------------------------------------------------
(* The session *)

NoCall == [fn |-> "none", name |-> << >>, master |-> << >>, query |-> << >>,
           api_key |-> << >>, resp |-> RequestException,
           doc |-> [raised |-> TRUE, status_code |-> 0, content |-> << >>],
           done |-> FALSE, result |-> << >>]

NoSnapshot == [selected |-> None, cache |-> None, options |-> << >>]

\* no script run is in progress and none has published anything
InitLocals ==
    /\ results = None
    /\ pc = "idle"
    /\ page_no = 1
    /\ out = << >>
    /\ fetched = << >>
    /\ items = << >>
    /\ i = 0
    /\ summary = << >>
    /\ bundle = << >>
    /\ doc_gets = << >>
    /\ before = NoSnapshot

\* a fresh session: nothing fetched, nothing searched, nothing selected
InitSession ==
    /\ st_cache = [k \in ApiKeys |-> None]
    /\ corp_master_cache = None
    /\ last_ok = None
    /\ search_options = << >>
    /\ company_selectbox = None
    /\ selected_company = None
    /\ run = NoRun

Init ==
    /\ InitSession
    /\ InitLocals
    /\ upstream \in SessionListings
    /\ call = NoCall

SearchPressed ==
    \E api_key \in ApiKeys, query \in Queries, exact_only \in BOOLEAN :
       \E resp \in (IF IsSome(st_cache[api_key]) THEN { RequestException }
                    ELSE DirResponses) : Search(api_key, query, exact_only, resp)

SearchPressedWithoutKey ==
    \E query \in Queries, exact_only \in BOOLEAN : SearchIgnored(query, exact_only)

OptionPicked == \E n \in 1..Len(search_options) : Pick(n)

DownloadPressed == \E api_key \in ApiKeys, year \in Years : RunDownload(api_key, year)

DocumentRequested == \E resp \in DocResponses : DownloadOne(resp)

Next ==
    \/ SearchPressed
    \/ SearchPressedWithoutKey
    \/ ClearCache
    \/ OptionPicked
    \/ Unpick
    \/ DownloadPressed
    \/ FetchPage
    \/ DocumentRequested

Spec == Init /\ [][Next]_vars

----------------------------------------------------------------------------
(* The download action from a session in which a company is selected *)

SelectedSession ==
    /\ st_cache = [k \in ApiKeys |-> IF k = << >> THEN None ELSE Some(DirectoryOld)]
    /\ corp_master_cache = Some(DirectoryOld)
    /\ last_ok = Some(DirectoryOld)
    /\ search_options = search_companies(DirectoryOld, << "a", "b" >>)
    /\ company_selectbox = Some(search_options[1])
    /\ selected_company = Some(Project(search_options[1]))

InitRun ==
    /\ SelectedSession
    /\ run = [NoRun EXCEPT !.action = "pick"]
    /\ InitLocals
    /\ upstream \in RunListings
    /\ call = NoCall

\* the download button pressed with the sidebar filled in
DownloadPressedReady == RunDownload(<< "k" >>, << "2", "0", "2", "4" >>)

NextRun ==
    \/ DownloadPressedReady
    \/ FetchPage
    \/ DocumentRequested

SpecRun == InitRun /\ [][NextRun]_vars

----------------------------------------------------------------------------
(* The download action on two filings whose names reach the length limit of
   sanitize_filename *)

\* with the 8-character date, two underscores and a 1-character receipt
\* number, a report name of NameLimit - 11 characters fills the limit exactly
ReportNames ==
    { << "Q", "1" >>, Repeat("A", NameLimit - 11), Repeat("A", NameLimit - 10),
      Repeat("A", NameLimit) }

NamedFiling(no, nm) ==
    [rcept_no |-> no, rcept_dt |-> Date0101, report_nm |-> nm, rpt_nm |-> << >>]

NameListings ==
    { Paginate(<< NamedFiling(<< "1" >>, n1), NamedFiling(<< "2" >>, n2) >>, 2, 2, NoFault) :
        n1 \in ReportNames, n2 \in ReportNames }

InitNames ==
    /\ SelectedSession
    /\ run = [NoRun EXCEPT !.action = "pick"]
    /\ InitLocals
    /\ upstream \in NameListings
    /\ call = NoCall

NextNames ==
    \/ DownloadPressedReady
    \/ FetchPage
    \/ DocumentRequested

SpecNames == InitNames /\ [][NextNames]_vars

----------------------------------------------------------------------------
(* fetch_list against a server that serves pages of up to page_count filings *)

PageCount == 100

Digit(d) ==
    CASE d = 0 -> "0" [] d = 1 -> "1" [] d = 2 -> "2" [] d = 3 -> "3" [] d = 4 -> "4"
      [] d = 5 -> "5" [] d = 6 -> "6" [] d = 7 -> "7" [] d = 8 -> "8" [] d = 9 -> "9"

RECURSIVE Decimal(_)
Decimal(n) == IF n < 10 THEN << Digit(n) >> ELSE Append(Decimal(n \div 10), Digit(n % 10))

\* the k-th filing of a long catalog
NumberedFiling(k) ==
    [rcept_no |-> Decimal(k), rcept_dt |-> Date0101, report_nm |-> << "Q", "1" >>,
     rpt_nm |-> << >>]

LongCatalog(n) == [k \in 1..n |-> NumberedFiling(k)]

CatalogSizes == { 0, 1, 99, 100, 101, 200, 250, 300 }

ReportedTotals == { 0, 100, 200, 250, 300, 400 }

LongListings ==
    { Paginate(LongCatalog(n), sz, t, f) :
        n \in CatalogSizes, sz \in { PageCount \div 2, PageCount },
        t \in ReportedTotals,
        f \in { NoFault, [page |-> 2, kind |-> "status"], [page |-> 3, kind |-> "http"] } }

InitList ==
    /\ SelectedSession
    /\ run = [NoRun EXCEPT !.action = "download", !.api_key = << "k" >>,
                           !.year = << "2", "0", "2", "4" >>]
    /\ results = None
    /\ pc = "listing"
    /\ page_no = 1
    /\ out = << >>
    /\ fetched = << >>
    /\ items = << >>
    /\ i = 0
    /\ summary = << >>
    /\ bundle = << >>
    /\ doc_gets = << >>
    /\ before = [selected |-> selected_company, cache |-> corp_master_cache,
                 options |-> search_options]
    /\ upstream \in LongListings
    /\ call = NoCall

NextList == FetchPage

SpecList == InitList /\ [][NextList]_vars

----------------------------------------------------------------------------
(* Calls of the pure helpers on inputs drawn from bounded sets *)

IdleSession ==
    /\ InitSession
    /\ InitLocals
    /\ upstream = << >>

\* the call returns
Return(value) == call' = [call EXCEPT !.done = TRUE, !.result = value]

OnlyCall ==
    UNCHANGED << st_cache, corp_master_cache, search_options, company_selectbox,
                 selected_company, run, results, pc, upstream, page_no, out, fetched,
                 items, i, summary, bundle, doc_gets, before, last_ok >>

\* sanitize_filename
MaxNameLen == 3

NameChars == { "a", " ", "/", "_" }

ShortNames == SeqsUpTo(NameChars, MaxNameLen)

LongNames ==
    { Repeat("a", n) \o tail :
        n \in (NameLimit - 2)..(NameLimit + 1), tail \in SeqsUpTo(NameChars, 2) }

BadCharNames == { << "x", bad[k], "z" >> : k \in 1..Len(bad) } \cup { << "\t" >> }

SanitizerInputs == { PyNone } \cup ShortNames \cup LongNames \cup BadCharNames

InitSan ==
    /\ IdleSession
    /\ \E name \in SanitizerInputs :
          call = [NoCall EXCEPT !.fn = "sanitize_filename", !.name = name]

CallSanitize ==
    /\ call.fn = "sanitize_filename"
    /\ ~call.done
    /\ Return(sanitize_filename(call.name))
    /\ OnlyCall

NextSan == CallSanitize

SpecSan == InitSan /\ [][NextSan]_vars

\* search_companies
MaxDirLen == 3

SearchNames == { << "A", "B" >>, << "a", " ", "b" >>, << "A", "B", "c" >>,
                 << "a", "A", "B" >>, << "c" >> }

StockCodes == { << >>, << "3" >> }

\* the directory of the given (name, stock code) pairs, corp_code by position
DirectoryOf(pairs) ==
    [k \in 1..Len(pairs) |->
        [corp_code |-> Decimal(k), corp_name |-> pairs[k][1], stock_code |-> pairs[k][2]]]

SearchDirectories ==
    { DirectoryOf(pairs) : pairs \in SeqsUpTo(SearchNames \X StockCodes, MaxDirLen) }

SearchQueries == { << >>, << " ", "\t" >>, << "a", "b" >>, << " ", "A", " ", "b", " " >>,
                   << "c" >> }

\* names and queries whose letters the two case-insensitive comparisons of
\* search_companies treat differently
FoldDirectories ==
    { DirectoryOf(<< << << "idotless", "b" >>, << >> >>,
                     << << "a", "sz" >>, << "3" >> >>,
                     << << "S", "S" >>, << >> >> >>),
      DirectoryOf(<< << << "i" >>, << "3" >> >>, << << "idotless" >>, << >> >> >>) }

FoldQueries == { << "i" >>, << "I", "B" >>, << "s", "s" >>, << "sz" >> }

\* directories around the row cap of the result: every row matches "ab",
\* the odd rows exactly
LongDirectorySizes == { HeadCap - 1, HeadCap, HeadCap + 1, HeadCap + 30 }

LongDirectory(n) ==
    [k \in 1..n |->
        [corp_code |-> Decimal(k),
         corp_name |-> IF k % 2 = 1 THEN << "A", "B" >> ELSE << "A", "B", "c" >>,
         stock_code |-> IF k % 3 = 0 THEN << "3" >> ELSE << >>]]

SearchCalls ==
    (SearchDirectories \X SearchQueries)
    \cup (FoldDirectories \X (SearchQueries \cup FoldQueries))
    \cup ({ LongDirectory(n) : n \in LongDirectorySizes } \X SearchQueries)

InitSearch ==
    /\ IdleSession
    /\ \E c \in SearchCalls :
          call = [NoCall EXCEPT !.fn = "search_companies", !.master = c[1],
                                !.query = c[2]]

CallSearch ==
    /\ call.fn = "search_companies"
    /\ ~call.done
    /\ Return(search_companies(call.master, call.query))
    /\ OnlyCall

NextSearch == CallSearch

SpecSearch == InitSearch /\ [][NextSearch]_vars

\* fetch_corp_master
ContentTypes == { "application/x-msdownload", "application/zip", "application/json",
                  "application/xml", "text/html", "text/plain" }

DirBodies ==
    { NoBody, HtmlBody, BrokenZipBody, ZipBody(DirectoryOld),
      [ZipBody(<< >>) EXCEPT !.zip = "member_error"],
      JsonBody("020", "limit"), JsonBody("", "limit"), JsonBody("013", ""),
      JsonBody("", ""),
      XmlBody(<< "k", "e", "d" >>, << >>), XmlBody(<< >>, << " ", "k", " " >>),
      XmlBody(<< " " >>, << "k" >>), XmlBody(<< >>, << >>) }

FetchResponses ==
    { RequestException }
    \cup { HttpResponse(sc, ct, b) : sc \in { 200, 503 }, ct \in ContentTypes, b \in DirBodies }

InitFetch ==
    /\ IdleSession
    /\ \E api_key \in ApiKeys \cup { << " " >> }, resp \in FetchResponses :
          call = [NoCall EXCEPT !.fn = "fetch_corp_master", !.api_key = api_key,
                                !.resp = resp]

CallFetch ==
    /\ call.fn = "fetch_corp_master"
    /\ ~call.done
    /\ Return(fetch_corp_master(call.api_key, call.resp))
    /\ OnlyCall

NextFetch == CallFetch

SpecFetch == InitFetch /\ [][NextFetch]_vars

\* download_zip_bytes and is_zip
MaxBodyLen == 5

DocBytes == { 80, 75, 3, 4, 0 }

DocBodies == SeqsUpTo(DocBytes, MaxBodyLen)

DocStatuses == { 200, 206, 404 }

DocCallResponses ==
    { [raised |-> TRUE, status_code |-> 0, content |-> << >>] }
    \cup { [raised |-> FALSE, status_code |-> sc, content |-> b] :
             sc \in DocStatuses, b \in DocBodies }

InitDoc ==
    /\ IdleSession
    /\ \/ \E resp \in DocCallResponses :
             call = [NoCall EXCEPT !.fn = "download_zip_bytes", !.doc = resp]
       \/ \E b \in DocBodies :
             call = [NoCall EXCEPT !.fn = "is_zip", !.doc.content = b]

CallDownloadZip ==
    /\ call.fn = "download_zip_bytes"
    /\ ~call.done
    /\ Return(download_zip_bytes(call.doc))
    /\ OnlyCall

CallIsZip ==
    /\ call.fn = "is_zip"
    /\ ~call.done
    /\ Return(is_zip(call.doc.content))
    /\ OnlyCall

NextDoc ==
    \/ CallDownloadZip
    \/ CallIsZip

SpecDoc == InitDoc /\ [][NextDoc]_vars

----------------------------------------------------------------------------
(* Properties *)

\* the document request returned an archive
GotArchive(resp) == ~resp.raised /\ Truthy(download_zip_bytes(resp).value)

\* the positions of the listed filings whose document request returned an archive
SavedPositions ==
    SelectSeq([k \in 1..Len(doc_gets) |-> k], LAMBDA k : GotArchive(doc_gets[k]))

\* C1: in a download run that completes, every filing record the lister
\* returned has exactly one summary row, carrying its receipt number and
\* date; there are as many rows as records, and the row of a filing whose
\* download failed carries the failure marker.
C1_EveryFilingHasOneRow ==
    IsSome(results) =>
        LET df == Get(results).df
        IN  /\ items = out
            /\ Len(df) = Len(items)
            /\ \A k \in 1..Len(items) :
                  LET rows == { r \in 1..Len(df) : df[r].index = k - 1 }
                  IN  /\ Cardinality(rows) = 1
                      /\ \A r \in rows :
                            /\ df[r].rcept_no = items[k].rcept_no
                            /\ df[r].rcept_dt = items[k].rcept_dt
                            /\ \/ GotArchive(doc_gets[k])
                               \/ df[r].zip_saved = failure_marker(items[k].rcept_no)

C1_Witness ==
    /\ IsSome(results)
    /\ Len(items) >= 2
    /\ \E k \in 1..Len(items) : GotArchive(doc_gets[k])
    /\ \E k \in 1..Len(items) : ~GotArchive(doc_gets[k])

\* C2: a failing download never aborts the batch: whatever the document
\* request does, download_zip_bytes does not raise, and a run that entered
\* the batch loop ends with the artifacts published and one row per filing.
C2_BatchNeverAborts ==
    /\ \A k \in 1..Len(doc_gets) : ~download_zip_bytes(doc_gets[k]).raised
    /\ (pc = "idle" /\ i > 0) =>
          /\ IsSome(results)
          /\ Len(Get(results).df) = Len(items)

\* C3: after the batch loop the bundle has one member per downloaded filing
\* and none for a failed one; the name of each member is the archive-filename
\* field of the row of its filing, and the row of a failed filing holds the
\* failure marker, which names no member.
C3_BundleMatchesSavedRows ==
    IsSome(results) =>
        LET df      == Get(results).df
            members == Get(results).bundle
            saved   == SavedPositions
        IN  /\ Len(members) = Len(saved)
            /\ \A m \in 1..Min(Len(members), Len(saved)) :
                  \E r \in 1..Len(df) :
                     /\ df[r].index = saved[m] - 1
                     /\ members[m].name = df[r].zip_saved
            /\ \A k \in 1..Len(items) :
                  ~GotArchive(doc_gets[k]) =>
                     \E r \in 1..Len(df) :
                        /\ df[r].index = k - 1
                        /\ df[r].zip_saved = failure_marker(items[k].rcept_no)
                        /\ \A m \in 1..Len(members) : members[m].name # df[r].zip_saved

C3_Witness ==
    /\ IsSome(results)
    /\ Len(items) = 3
    /\ Len(Get(results).bundle) = 2
    /\ ~GotArchive(doc_gets[2])

\* what fetch_list has accumulated after the first n pages of the server
RECURSIVE Collected(_)
Collected(n) == IF n = 0 THEN << >> ELSE Collected(n - 1) \o PageAt(upstream, n).list

\* the accumulated count has reached the total page n reports, or page n is empty
StopsAt(n) ==
    \/ Len(Collected(n)) >= PageAt(upstream, n).total_count
    \/ PageAt(upstream, n).list = << >>

\* fetch_list has returned its list to the download action
ListReturned == pc = "downloading" \/ "info_no_filings" \in run.messages

\* C4: fetch_list requests pages 1, 2, 3, ... in order and stops after the
\* first page at which the accumulated count has reached the reported total
\* or the page is empty; it returns the concatenation of the pages in request
\* order; 250 filings reported as 250 and served 100 a page give 250 items
\* after 3 requests.
C4_PagesInOrderUntilFirstStop ==
    /\ fetched = [k \in 1..Len(fetched) |-> k]
    /\ pc = "listing" => \A n \in 1..Len(fetched) : ~StopsAt(n)
    /\ ListReturned =>
          /\ Len(fetched) >= 1
          /\ StopsAt(Len(fetched))
          /\ \A n \in 1..(Len(fetched) - 1) : ~StopsAt(n)
          /\ out = Collected(Len(fetched))
          /\ items = out
    /\ (ListReturned /\ upstream = Paginate(LongCatalog(250), PageCount, 250, NoFault)) =>
          /\ Len(out) = 250
          /\ Len(fetched) = 3

C4_Witness ==
    /\ ListReturned
    /\ upstream = Paginate(LongCatalog(250), PageCount, 250, NoFault)
    /\ Len(fetched) = 3
    /\ Len(items) = 250

\* C5: for every input, None, empty and whitespace-only included, the result
\* of sanitize_filename has none of the characters \ / : * ? " < > |, is at
\* most 120 long and is not empty.
C5_SanitizedNameIsSafe ==
    (call.fn = "sanitize_filename" /\ call.done) =>
        /\ \A k \in 1..Len(call.result) :
              call.result[k] \notin { "\\", "/", ":", "*", "?", "\"", "<", ">", "|" }
        /\ Len(call.result) <= NameLimit
        /\ call.result # << >>

\* the response is no archive by the test of line 80
NotArchive(resp) == ~resp.raised /\ ~is_zip(resp.content.bytes) /\ ~CtHasZip(resp.content_type)

\* C6: when the directory response is no archive and its body is a JSON
\* envelope with a status or a message, or else an XML document with a
\* non-blank message/msg element, fetch_corp_master fails with an error that
\* carries them; the generic non-archive error is raised only otherwise.
C6_UpstreamMessageSurfaced ==
    (call.fn = "fetch_corp_master" /\ call.done /\ strip(call.api_key) # << >>
        /\ NotArchive(call.resp)) =>
        LET body == call.resp.content
            e    == call.result.error
            json == IsSome(body.json)
                    /\ (Get(body.json).status # "" \/ Get(body.json).message # "")
            xmsg == IF IsSome(body.xml)
                    THEN (IF Get(body.xml).message # << >> THEN Get(body.xml).message
                          ELSE Get(body.xml).msg)
                    ELSE << >>
        IN  /\ call.result.raised
            /\ IF json
               THEN /\ e.kind = "upstream_json"
                    /\ e.status = Get(body.json).status
                    /\ e.message = Get(body.json).message
               ELSE IF strip(xmsg) # << >>
               THEN e.kind = "upstream_xml" /\ e.message = strip(xmsg)
               ELSE e.kind \in { "non_zip_html", "non_zip" }

\* the last script run was a search whose directory fetch failed
SearchFailed == run.action = "search" /\ run.fetch = "failed"

\* the last script run was a download stopped by invalid inputs or by the listing
DownloadFailed ==
    /\ run.action = "download"
    /\ pc = "idle"
    /\ \/ run.messages \cap { "err_api_key", "err_no_company", "err_year" } # { }
       \/ "error" \in run.messages /\ i = 0

\* C7: every failing user action (a search whose directory fetch fails, a
\* download whose listing fails or whose inputs are invalid) leaves the
\* selected company and the retained directory as they were before it.
C7_FailedActionKeepsState ==
    (SearchFailed \/ DownloadFailed) =>
        /\ selected_company = before.selected
        /\ corp_master_cache = before.cache

\* C7 as amended: a failing action leaves the retained directory as it was;
\* a failing download leaves the selected company as it was too, while a
\* search whose directory fetch fails clears the selected company.
C7_FailedActionKeepsDirectory ==
    /\ SearchFailed =>
          /\ corp_master_cache = before.cache
          /\ selected_company = None
    /\ DownloadFailed =>
          /\ corp_master_cache = before.cache
          /\ selected_company = before.selected

C7_Witness ==
    /\ SearchFailed
    /\ IsSome(before.selected)
    /\ IsSome(corp_master_cache)

\* the rows the search handler stores for a search of the directory master
SearchRows(master) ==
    exact_only_filter(search_companies(master, run.query), run.query, run.exact_only)

\* C8: when the directory fetch of a search fails and an earlier fetch
\* succeeded, the search runs against the last successful directory and a
\* stale-data warning is shown; when none ever succeeded the action stops
\* with an error and no results.  The retained directory is the last
\* successfully fetched one, whole, and changes only in a successful search.
C8_StaleFallbackOrAbort ==
    /\ corp_master_cache = last_ok
    /\ corp_master_cache # before.cache =>
          run.action = "search" /\ run.fetch \in { "ok", "cached" }
    /\ (SearchFailed /\ IsSome(last_ok)) =>
          /\ "stale_warning" \in run.messages
          /\ "search_error" \notin run.messages
          /\ search_options = SearchRows(Get(last_ok))
    /\ (SearchFailed /\ last_ok = None) =>
          /\ run.messages = { "search_error" }
          /\ search_options = << >>

C8_Witness ==
    /\ SearchFailed
    /\ IsSome(last_ok)
    /\ "stale_warning" \in run.messages
    /\ search_options # << >>

\* C9: there is at most one selected company; picking a row overwrites it
\* with the row's (corp_code, corp_name); pressing the search button clears
\* it and the previous search results, whatever the outcome of the search.
C9_SearchPressClearsSelection ==
    /\ Len(selected_company) <= 1
    /\ run.action = "pick" =>
          selected_company = Some(Project(Get(company_selectbox)))
    /\ run.action = "search" =>
          /\ selected_company = None
          /\ company_selectbox = None
          /\ \/ search_options = << >>
             \/ IsSome(corp_master_cache)
                /\ search_options = SearchRows(Get(corp_master_cache))

\* C9 as amended: the search button clears the selection and the previous
\* results when the API key is not empty; with an empty key the press is
\* ignored and selection and results stay as they were.
C9_SearchWithKeyClearsSelection ==
    /\ Len(selected_company) <= 1
    /\ run.action = "pick" =>
          selected_company = Some(Project(Get(company_selectbox)))
    /\ (run.action = "search" /\ run.fetch # "skipped") =>
          /\ selected_company = None
          /\ company_selectbox = None
          /\ \/ search_options = << >>
             \/ IsSome(corp_master_cache)
                /\ search_options = SearchRows(Get(corp_master_cache))
    /\ (run.action = "search" /\ run.fetch = "skipped") =>
          /\ selected_company = before.selected
          /\ search_options = before.options

C9_Witness ==
    /\ run.action = "search"
    /\ run.fetch # "skipped"
    /\ IsSome(before.selected)
    /\ before.options # << >>
    /\ selected_company = None

\* the rank of a row for the query of the call: 0 exact, 1 substring only
RankOf(r) ==
    IF casefold(remove_whitespace(r.corp_name))
         = casefold(remove_whitespace(strip(call.query)))
    THEN 0 ELSE 1

\* C10: in the result of search_companies every exact match precedes every
\* substring-only match; within a rank a company with a stock code precedes
\* every company without one; remaining ties are in ascending name order.
C10_SearchResultOrder ==
    (call.fn = "search_companies" /\ call.done) =>
        \A a, b \in 1..Len(call.result) :
            a < b =>
                LET x == call.result[a]
                    y == call.result[b]
                IN  /\ RankOf(x) <= RankOf(y)
                    /\ RankOf(x) = RankOf(y) =>
                          /\ ~(x.stock_code = << >> /\ y.stock_code # << >>)
                          /\ (x.stock_code = << >>) = (y.stock_code = << >>) =>
                                ~StrLess(y.corp_name, x.corp_name)

C10_Witness ==
    /\ call.fn = "search_companies"
    /\ call.done
    /\ Len(call.result) = 3
    /\ RankOf(call.result[1]) = 0
    /\ RankOf(call.result[2]) = 1
    /\ call.result[2].stock_code # << >>
    /\ call.result[3].stock_code = << >>
    /\ call.result[1].stock_code = << >>

\* x occurs in hay as a block of consecutive characters
Contains(hay, x) ==
    \E off \in 0..(Len(hay) - Len(x)) : SubSeq(hay, off + 1, off + Len(x)) = x

\* C11: search_companies returns only records whose whitespace-stripped,
\* case-folded name contains the whitespace-stripped, case-folded query, no
\* record twice, at most 200 rows, and nothing for a blank query.
C11_SearchReturnsOnlyMatches ==
    (call.fn = "search_companies" /\ call.done) =>
        LET qn == casefold(remove_whitespace(call.query))
        IN  /\ \A k \in 1..Len(call.result) :
                  Contains(casefold(remove_whitespace(call.result[k].corp_name)), qn)
            /\ \A a, b \in 1..Len(call.result) :
                  a # b => call.result[a].corp_code # call.result[b].corp_code
            /\ Len(call.result) <= HeadCap
            /\ remove_whitespace(call.query) = << >> => call.result = << >>

\* C12: for every response the document request receives, download_zip_bytes
\* returns the body exactly when the status is 200 and the body is longer
\* than four bytes and starts with the local-file-header magic 50 4B 03 04,
\* and returns None otherwise; is_zip is false for every buffer of at most
\* four bytes.
C12_ArchiveIffOkAndSniffed ==
    /\ (call.fn = "download_zip_bytes" /\ call.done /\ ~call.doc.raised) =>
          LET c      == call.doc.content
              passes == Len(c) > 4 /\ c[1] = 80 /\ c[2] = 75 /\ c[3] = 3 /\ c[4] = 4
          IN  /\ ~call.result.raised
              /\ call.result.value =
                    IF call.doc.status_code = 200 /\ passes THEN Some(c) ELSE None
    /\ (call.fn = "is_zip" /\ call.done /\ Len(call.doc.content) <= 4) =>
          call.result = FALSE

\* status 200 and a body that is the bare four-byte magic: not available
C12_Witness ==
    /\ call.fn = "download_zip_bytes"
    /\ call.done
    /\ call.doc.status_code = 200
    /\ call.doc.content = << 80, 75, 3, 4 >>
    /\ call.result.value = None

\* a page requested in this run answered with a status other than "000"
ListingStatusError ==
    \E k \in 1..Len(fetched) :
        LET data == PageAt(upstream, fetched[k])
        IN  ~data.http_error /\ data.status # "000"

\* C13: when a requested page of the listing carries a status other than
\* "000", the action ends with the list.json error shown, fetch_list has
\* handed over no filings (not even those of earlier pages), no document
\* request was made, and no summary or bundle exists.
C13_ListErrorAbortsRun ==
    ListingStatusError =>
        /\ pc = "idle"
        /\ run.error.kind = "list_json"
        /\ run.messages = { "error" }
        /\ items = << >>
        /\ doc_gets = << >>
        /\ summary = << >>
        /\ bundle = << >>
        /\ results = None

\* the second page fails after the first page delivered filings
C13_Witness ==
    /\ ListingStatusError
    /\ fetched = << 1, 2 >>
    /\ out # << >>
    /\ run.error.kind = "list_json"

\* C14: the summary table of a completed run has its rows in descending
\* order of submission date and, among rows of one date, in ascending order
\* of report name, in whatever order fetch_list delivered the filings.
C14_SummarySortedByDateThenName ==
    IsSome(results) =>
        LET df == Get(results).df
        IN  \A a, b \in 1..Len(df) :
                a < b =>
                    /\ ~StrLess(df[a].rcept_dt, df[b].rcept_dt)
                    /\ df[a].rcept_dt = df[b].rcept_dt =>
                          ~StrLess(df[b].report_nm, df[a].report_nm)

\* the filings were listed oldest first and, within the later date, in
\* descending name order: the table has them the other way round
C14_Witness ==
    /\ IsSome(results)
    /\ items = << FilingAR, FilingNoName, FilingQ1 >>
    /\ LET df == Get(results).df
       IN  /\ Len(df) = 3
           /\ df[1].rcept_no = FilingQ1.rcept_no
           /\ df[2].rcept_no = FilingNoName.rcept_no
           /\ df[3].rcept_no = FilingAR.rcept_no

\* the year is four of the decimal digits 0-9
FourDecimalDigits(year) ==
    /\ Len(year) = 4
    /\ \A k \in 1..4 : year[k] \in { "0", "1", "2", "3", "4", "5", "6", "7", "8", "9" }

\* C15: a press of the download button leads to a listing request or a
\* document request only if the API key is non-empty, a company is selected
\* and the year is four decimal digits; otherwise an error is reported, no
\* request is made and no artifact is produced.
C15_RequestsOnlyWithValidInputs ==
    run.action = "download" =>
        LET valid == /\ run.api_key # << >>
                     /\ IsSome(selected_company)
                     /\ FourDecimalDigits(run.year)
        IN  /\ (fetched # << >> \/ doc_gets # << >>) => valid
            /\ ~valid =>
                  /\ run.messages \cap { "err_api_key", "err_no_company", "err_year" } # { }
                  /\ fetched = << >>
                  /\ doc_gets = << >>
                  /\ results = None

\* C16: at every point of a session the selected company, when there is
\* one, is the (corp_code, corp_name) of a row of the current search
\* results, so the company a download works on comes from the results of
\* the most recent search.
C16_SelectionIsCurrentResultRow ==
    IsSome(selected_company) =>
        \E k \in 1..Len(search_options) :
            Project(search_options[k]) = Get(selected_company)

\* a download completed for a company picked earlier, the selectbox cleared
\* since
C16_Witness ==
    /\ run.action = "download"
    /\ IsSome(results)
    /\ IsSome(selected_company)
    /\ company_selectbox = None
    /\ Len(search_options) > 1

\* C17: in a completed run, two downloaded filings with different receipt
\* numbers are members of the bundle under different names.
C17_DistinctFilingsDistinctMembers ==
    IsSome(results) =>
        LET members == Get(results).bundle
            saved   == SavedPositions
        IN  /\ Len(members) = Len(saved)
            /\ \A a, b \in 1..Len(members) :
                  items[saved[a]].rcept_no # items[saved[b]].rcept_no =>
                      members[a].name # members[b].name

====
